---- MODULE Spec2Model ----
(***************************************************************************)
(* examples/validate_examples.py: path-scoped JSON Schema validation of    *)
(* the example documents, the flattening of the validator's error tree and *)
(* the reporting loop of main.                                             *)
(*                                                                         *)
(* JSON values are tagged records.  A JSON string is a sequence of tokens  *)
(* (its indivisible pieces), so that a path query or a "$ref" is parsed    *)
(* from its text rather than looked up.                                    *)
(***************************************************************************)
EXTENDS Integers, Sequences, FiniteSets, TLC

VARIABLES
    to_validate,   \* main: the check list (static configuration)
    idx,           \* main: index of the check the loop is at
    success,       \* main: the local "success"
    stdout,        \* everything printed so far, one record per print
    pc,            \* main's position
    status,        \* the process' exit status once it has exited
    frame,         \* the running (or last) activation of validate
    e_in,          \* the validator's errors (a list of error trees) to flatten
    e_out          \* the flat list collected from e_in, once collected

vars == <<to_validate, idx, success, stdout, pc, status, frame, e_in, e_out>>

(***************************************************************************)
(* Bounds of the model.                                                    *)
(***************************************************************************)
MaxChecks == 2    \* checks in a check list
MaxNodes == 4     \* nodes of an error tree handed to _collect_errors

(***************************************************************************)
(* JSON values.                                                            *)
(***************************************************************************)
JInt(n) == [k |-> "int", n |-> n]
JStr(s) == [k |-> "str", s |-> s]
JArr(a) == [k |-> "arr", a |-> a]
JObj(f) == [k |-> "obj", f |-> f]
None == [k |-> "None"]

IsObj(v) == v.k = "obj"
Keys(v) == IF IsObj(v) THEN DOMAIN v.f ELSE {}

RECURSIVE SetToSeq(_)
SetToSeq(S) ==
    IF S = {} THEN <<>>
    ELSE LET x == CHOOSE y \in S : TRUE IN <<x>> \o SetToSeq(S \ {x})

RECURSIVE Flat(_)
Flat(ss) == IF ss = <<>> THEN <<>> ELSE Head(ss) \o Flat(Tail(ss))

\* The values directly below v: an object's members, an array's elements.
Children(v) ==
    IF v.k = "obj" THEN LET ks == SetToSeq(DOMAIN v.f)
                        IN [i \in 1..Len(ks) |-> v.f[ks[i]]]
    ELSE IF v.k = "arr" THEN v.a
    ELSE <<>>

RECURSIVE Descendants(_)
\* v and everything below it, each node before the nodes below it.
Descendants(v) ==
    LET cs == Children(v)
    IN <<v>> \o Flat([i \in 1..Len(cs) |-> Descendants(cs[i])])

(***************************************************************************)
(* bc_jsonpath_ng: parse(query).find(document).  A query is "$" followed   *)
(* by steps: ".name" (member), ".*" (every child), "..name" (member of any *)
(* descendant).  find returns the matched values; only their number and,   *)
(* when there is one, its value matter to validate.                        *)
(***************************************************************************)
RECURSIVE parse_steps(_)
parse_steps(toks) ==
    IF Len(toks) < 2 THEN <<>>
    ELSE LET sep == toks[1]
             name == toks[2]
             step == IF sep = ".." THEN [t |-> "desc", name |-> name]
                     ELSE IF name = "*" THEN [t |-> "wild", name |-> name]
                     ELSE [t |-> "child", name |-> name]
         IN <<step>> \o parse_steps(SubSeq(toks, 3, Len(toks)))

\* query is a str: "$" and the steps after it
parse(query) == parse_steps(Tail(query.s))

Member(v, name) == IF name \in Keys(v) THEN <<v.f[name]>> ELSE <<>>

ApplyStep(step, v) ==
    IF step.t = "child" THEN Member(v, step.name)
    ELSE IF step.t = "wild" THEN Children(v)
    ELSE LET ds == Descendants(v)
         IN Flat([i \in 1..Len(ds) |-> Member(ds[i], step.name)])

RECURSIVE find_from(_, _)
find_from(steps, nodes) ==
    IF steps = <<>> THEN nodes
    ELSE find_from(Tail(steps),
                   Flat([i \in 1..Len(nodes) |-> ApplyStep(Head(steps), nodes[i])]))

find(steps, document) == find_from(steps, <<document>>)

(***************************************************************************)
(* jsonschema: the meta-schema check, the reference resolver and           *)
(* iter_errors, for the keywords "$ref", "type", "required", "properties"  *)
(* and "anyOf".  A keyword the dialect does not know ("defs") is ignored.  *)
(* No file names a dialect with "$schema", so validator_for picks the      *)
(* latest one, in which a "$ref" is evaluated along with its siblings; the *)
(* files write their keywords in the order "$ref", "type", "required",     *)
(* "properties", "anyOf", the order the errors are yielded in.             *)
(***************************************************************************)
SimpleTypes == {<<"object">>, <<"integer">>, <<"string">>, <<"array">>}

validator_for(schema) == "Draft202012Validator"

IsStrArr(v) == v.k = "arr" /\ \A i \in 1..Len(v.a) : v.a[i].k = "str"

RECURSIVE MetaValid(_)
\* The fragment conforms to the dialect's meta-schema.
MetaValid(s) ==
    /\ IsObj(s)
    /\ "$ref" \in Keys(s) => s.f["$ref"].k = "str"
    /\ "type" \in Keys(s) => s.f["type"].k = "str" /\ s.f["type"].s \in SimpleTypes
    /\ "required" \in Keys(s) => IsStrArr(s.f["required"])
    /\ "properties" \in Keys(s) =>
           /\ IsObj(s.f["properties"])
           /\ \A p \in Keys(s.f["properties"]) : MetaValid(s.f["properties"].f[p])
    /\ "anyOf" \in Keys(s) =>
           /\ s.f["anyOf"].k = "arr"
           /\ Len(s.f["anyOf"].a) > 0
           /\ \A i \in 1..Len(s.f["anyOf"].a) : MetaValid(s.f["anyOf"].a[i])

\* Path(schema_path).as_uri()
as_uri(schema_path) == <<"file://", schema_path>>

RefResolver(base_uri, referrer) == [base_uri |-> base_uri, referrer |-> referrer]

RECURSIVE resolve_fragment(_, _)
\* Walks a JSON pointer ("/" name "/" name ...) down from document.
resolve_fragment(document, toks) ==
    IF Len(toks) < 2 THEN [found |-> TRUE, v |-> document]
    ELSE IF toks[2] \in Keys(document)
         THEN resolve_fragment(document.f[toks[2]], SubSeq(toks, 3, Len(toks)))
         ELSE [found |-> FALSE, v |-> None]

\* A reference "#..." names a node of the document the resolver was built
\* with; any other reference names a document the resolver does not hold.
resolve(resolver, ref) ==
    IF ref # <<>> /\ Head(ref) = "#"
    THEN resolve_fragment(resolver.referrer, Tail(ref))
    ELSE [found |-> FALSE, v |-> None]

is_type(v, t) ==
    \/ t = <<"object">> /\ v.k = "obj"
    \/ t = <<"integer">> /\ v.k = "int"
    \/ t = <<"string">> /\ v.k = "str"
    \/ t = <<"array">> /\ v.k = "arr"

ErrorNode(message, json_path, context) ==
    [message |-> message, json_path |-> json_path, context |-> context]

\* What a run of the validator over a value comes to: the errors it yields,
\* or the exception that ends it ("" when none does).
Yield(errs) == [raised |-> "", errs |-> errs]
Raised(exception) == [raised |-> exception, errs |-> <<>>]

RECURSIVE Chain(_)
\* The errors of consecutive keywords, up to the first that raises.
Chain(rs) ==
    IF rs = <<>> THEN Yield(<<>>)
    ELSE IF Head(rs).raised # "" THEN Head(rs)
    ELSE LET rest == Chain(Tail(rs))
         IN IF rest.raised # "" THEN rest
            ELSE Yield(Head(rs).errs \o rest.errs)

RECURSIVE iter_errors(_, _, _, _)
RECURSIVE any_of(_, _, _, _, _)

\* anyOf: the first subschema without errors ends the keyword; when none is,
\* one error whose context holds every subschema's errors.
any_of(subs, value, resolver, path, all_errors) ==
    IF subs = <<>>
    THEN Yield(<<ErrorNode(<<"anyOf">>, path, all_errors)>>)
    ELSE LET r == iter_errors(Head(subs), value, resolver, path)
         IN IF r.raised # "" THEN r
            ELSE IF r.errs = <<>> THEN Yield(<<>>)
            ELSE any_of(Tail(subs), value, resolver, path, all_errors \o r.errs)

iter_errors(schema, value, resolver, path) ==
    LET ks == Keys(schema)
        by_ref ==
            IF "$ref" \notin ks THEN Yield(<<>>)
            ELSE LET target == resolve(resolver, schema.f["$ref"].s)
                 IN IF ~target.found THEN Raised("RefResolutionError")
                    ELSE iter_errors(target.v, value, resolver, path)
        by_type ==
            IF "type" \notin ks THEN Yield(<<>>)
            ELSE IF schema.f["type"].k # "str" THEN Raised("UnknownType")
            ELSE IF schema.f["type"].s \notin SimpleTypes THEN Raised("UnknownType")
            ELSE IF is_type(value, schema.f["type"].s) THEN Yield(<<>>)
            ELSE Yield(<<ErrorNode(<<"type">> \o schema.f["type"].s, path, <<>>)>>)
        by_required ==
            IF "required" \in ks /\ IsObj(value)
            THEN LET req == schema.f["required"].a
                 IN Yield(Flat([i \in 1..Len(req) |->
                        IF req[i].s[1] \in Keys(value) THEN <<>>
                        ELSE <<ErrorNode(<<"required">> \o req[i].s, path, <<>>)>>]))
            ELSE Yield(<<>>)
        by_properties ==
            IF "properties" \in ks /\ IsObj(value)
            THEN LET ps == SetToSeq(Keys(schema.f["properties"]) \cap Keys(value))
                 IN Chain([i \in 1..Len(ps) |->
                        iter_errors(schema.f["properties"].f[ps[i]], value.f[ps[i]],
                                    resolver, path \o <<".", ps[i]>>)])
            ELSE Yield(<<>>)
        by_anyOf ==
            IF "anyOf" \in ks
            THEN any_of(schema.f["anyOf"].a, value, resolver, path, <<>>)
            ELSE Yield(<<>>)
    IN Chain(<<by_ref, by_type, by_required, by_properties, by_anyOf>>)

(***************************************************************************)
(* The files under schema/ and examples/.                                  *)
(***************************************************************************)
S(tok) == JStr(<<tok>>)
Names(ns) == JArr([i \in 1..Len(ns) |-> S(ns[i])])
Ref(toks) == "$ref" :> JStr(toks)
EmptyObj == JObj(<<>>)

PointSchema == JObj([type |-> S("object"), required |-> Names(<<"lat", "lon">>)])

Schema_Req == JObj([type |-> S("object"), required |-> Names(<<"x", "y">>)])

Schema_Defs ==
    JObj([defs |-> JObj([
        Point |-> PointSchema,
        PointRef |-> JObj(Ref(<<"#", "/", "defs", "/", "Point">>)),
        Shadow |-> JObj(Ref(<<"#", "/", "defs", "/", "Point">>)
                        @@ [defs |-> JObj([Point |-> JObj([type |-> S("integer")])])]),
        Dangling |-> JObj(Ref(<<"#", "/", "defs", "/", "Nowhere">>)),
        Malformed |-> JObj([type |-> JInt(5)]),
        Choice |-> JObj([anyOf |-> JArr(<<
                      JObj([type |-> S("integer")]),
                      JObj([anyOf |-> JArr(<<
                          JObj([required |-> Names(<<"lat", "lon">>)]),
                          JObj([type |-> S("string")])>>)])>>)]),
        Nested |-> JObj([type |-> S("object"),
                         properties |-> JObj([feature |->
                             JObj(Ref(<<"#", "/", "defs", "/", "Point">>))])])
    ])])

SchemaFileNames == {"Schema_Req", "Schema_Defs"}
SchemaFile(name) == IF name = "Schema_Req" THEN Schema_Req ELSE Schema_Defs

Example_X == JObj([x |-> JInt(1), y |-> JInt(2)])
Example_Feature ==
    JObj([feature |-> JObj([lat |-> JInt(1), lon |-> JInt(2)]),
          partial |-> JObj([lat |-> JInt(1)]),
          wrapped |-> JObj([feature |-> JObj([lat |-> JInt(1)])]),
          n |-> JInt(5)])

ExampleFileNames == {"Example_X", "Example_Empty", "Example_Feature"}
ExampleFile(name) ==
    IF name = "Example_X" THEN Example_X
    ELSE IF name = "Example_Empty" THEN EmptyObj
    ELSE Example_Feature

Root == JStr(<<"$">>)
Dot(name) == JStr(<<"$", ".", name>>)
Def(name) == JStr(<<"$", ".", "defs", ".", name>>)
SchemaQueries ==
    {Root, Dot("missing"), Def("*"), JStr(<<"$", "..", "Point">>),
     JStr(<<"$", ".", "defs", ".", "Nested", ".", "properties", ".", "feature">>)}
    \cup {Def(d) : d \in {"Point", "PointRef", "Shadow", "Dangling", "Malformed",
                          "Choice", "Nested"}}
InstanceQueries ==
    {Root, Dot("feature"), Dot("partial"), Dot("wrapped"), Dot("n"), Dot("missing"),
     Dot("*"),
     JStr(<<"$", "..", "lat">>)}

(***************************************************************************)
(* _collect_errors                                                         *)
(***************************************************************************)
ValidationError(message, json_path) == [message |-> message, json_path |-> json_path]

NotCollected == [done |-> FALSE, list |-> <<>>]
Collected(list) == [done |-> TRUE, list |-> list]

\* A variant that also reports the composite node itself.
RECURSIVE _collect_errors_keeps_composite(_)
_collect_errors_keeps_composite(e) ==
    <<ValidationError(e.message, e.json_path)>>
    \o Flat([i \in 1..Len(e.context) |-> _collect_errors_keeps_composite(e.context[i])])

RECURSIVE _collect_errors(_)
_collect_errors(e) ==
    IF e.context # <<>>
    THEN Flat([i \in 1..Len(e.context) |-> _collect_errors(e.context[i])])
    ELSE <<ValidationError(e.message, e.json_path)>>

\* A variant that keeps only the errors that are leaves themselves.
CollectAll_top_leaves(errs) ==
    Flat([i \in 1..Len(errs) |->
            IF errs[i].context # <<>> THEN <<>> ELSE _collect_errors(errs[i])])

\* lines 62-64: the loop of validate over the validator's top-level errors
CollectAll(errs) == Flat([i \in 1..Len(errs) |-> _collect_errors(errs[i])])

(***************************************************************************)
(* validate, statement by statement.  A frame holds the arguments, the     *)
(* locals, the position (pc), the exception that left it (exc) and the     *)
(* library calls made so far (calls).                                      *)
(***************************************************************************)
NoExc == [type |-> "none", what |-> "", count |-> 0]
ValueError(what, count) == [type |-> "ValueError", what |-> what, count |-> count]
SchemaError == [type |-> "SchemaError", what |-> "schema", count |-> 0]
LibraryError(type) == [type |-> type, what |-> "schema", count |-> 0]

NewFrame(schema_path, object_path, instance, instance_path) ==
    [schema_path |-> schema_path, object_path |-> object_path,
     instance |-> instance, instance_path |-> instance_path,
     schema_content |-> None, schema |-> None, value |-> None,
     result |-> <<>>, pc |-> "load_schema", exc |-> NoExc, calls |-> <<>>]

IdleFrame == [NewFrame("", Root, None, None) EXCEPT !.pc = "idle"]

\* The order in which the schema is checked before the instance is resolved.
After_schema_first(position) ==
    CASE position = "load_schema" -> "resolve_schema"
      [] position = "resolve_schema" -> "check_schema"
      [] position = "check_schema" -> "resolve_instance"
      [] position = "resolve_instance" -> "iter_errors"
      [] position = "iter_errors" -> "returned"

\* The order of validate's statements: the position after each.
After(position) ==
    CASE position = "load_schema" -> "resolve_schema"         \* line 40
      [] position = "resolve_schema" -> "resolve_instance"    \* line 47
      [] position = "resolve_instance" -> "check_schema"      \* line 57
      [] position = "check_schema" -> "iter_errors"           \* line 60
      [] position = "iter_errors" -> "returned"               \* line 65

Raise(fr, exc, calls) == [fr EXCEPT !.pc = "raised", !.exc = exc, !.calls = calls]

\* lines 37-38
StepLoadSchema(fr) ==
    [fr EXCEPT !.schema_content = SchemaFile(fr.schema_path), !.pc = After(fr.pc)]

\* A variant that settles for the first of several matches.
StepResolveSchema_first_match(fr) ==
    LET schema_matches == find(parse(fr.object_path), fr.schema_content)
        calls == Append(fr.calls, "find_schema")
    IN IF Len(schema_matches) = 0
       THEN Raise(fr, ValueError("schema", Len(schema_matches)), calls)
       ELSE [fr EXCEPT !.schema = schema_matches[1], !.calls = calls,
                       !.pc = After(fr.pc)]

\* lines 40-45
StepResolveSchema(fr) ==
    LET schema_matches == find(parse(fr.object_path), fr.schema_content)
        calls == Append(fr.calls, "find_schema")
    IN IF Len(schema_matches) # 1
       THEN Raise(fr, ValueError("schema", Len(schema_matches)), calls)
       ELSE [fr EXCEPT !.schema = schema_matches[1], !.calls = calls,
                       !.pc = After(fr.pc)]

\* A variant without the else branch: no query leaves value unset.
StepResolveInstance_no_else(fr) ==
    IF fr.instance_path # None
    THEN LET instance_matches == find(parse(fr.instance_path), fr.instance)
             calls == Append(fr.calls, "find_instance")
         IN IF Len(instance_matches) # 1
            THEN Raise(fr, ValueError("instance", Len(instance_matches)), calls)
            ELSE [fr EXCEPT !.value = instance_matches[1], !.calls = calls,
                            !.pc = After(fr.pc)]
    ELSE [fr EXCEPT !.pc = After(fr.pc)]

\* lines 47-55
StepResolveInstance(fr) ==
    IF fr.instance_path # None
    THEN LET instance_matches == find(parse(fr.instance_path), fr.instance)
             calls == Append(fr.calls, "find_instance")
         IN IF Len(instance_matches) # 1
            THEN Raise(fr, ValueError("instance", Len(instance_matches)), calls)
            ELSE [fr EXCEPT !.value = instance_matches[1], !.calls = calls,
                            !.pc = After(fr.pc)]
    ELSE [fr EXCEPT !.value = fr.instance, !.pc = After(fr.pc)]

\* A variant that picks the validator class and never checks the schema.
StepCheckSchema_unchecked(fr) ==
    [fr EXCEPT !.calls = Append(fr.calls, "check_schema"), !.pc = After(fr.pc)]

\* lines 57-58
StepCheckSchema(fr) ==
    LET calls == Append(fr.calls, "check_schema")
    IN IF MetaValid(fr.schema)
       THEN [fr EXCEPT !.calls = calls, !.pc = After(fr.pc)]
       ELSE Raise(fr, SchemaError, calls)

\* A variant whose resolver holds the selected fragment, not the document.
StepIterErrors_fragment_resolver(fr) ==
    LET ref_resolver == RefResolver(as_uri(fr.schema_path), fr.schema)
        raw == iter_errors(fr.schema, fr.value, ref_resolver, <<"$">>)
        calls == Append(fr.calls, "iter_errors")
    IN IF raw.raised # ""
       THEN Raise(fr, LibraryError(raw.raised), calls)
       ELSE [fr EXCEPT !.calls = calls, !.pc = After(fr.pc),
                       !.result = CollectAll(raw.errs)]

\* lines 60-65
StepIterErrors(fr) ==
    LET ref_resolver == RefResolver(as_uri(fr.schema_path), fr.schema_content)
        raw == iter_errors(fr.schema, fr.value, ref_resolver, <<"$">>)
        calls == Append(fr.calls, "iter_errors")
    IN IF raw.raised # ""
       THEN Raise(fr, LibraryError(raw.raised), calls)
       ELSE [fr EXCEPT !.calls = calls, !.pc = After(fr.pc),
                       !.result = CollectAll(raw.errs)]

Step(fr) ==
    CASE fr.pc = "load_schema" -> StepLoadSchema(fr)
      [] fr.pc = "resolve_schema" -> StepResolveSchema(fr)
      [] fr.pc = "resolve_instance" -> StepResolveInstance(fr)
      [] fr.pc = "check_schema" -> StepCheckSchema(fr)
      [] fr.pc = "iter_errors" -> StepIterErrors(fr)
      [] OTHER -> fr

\* The whole call: the frame validate ends in.
validate(schema_path, object_path, instance, instance_path) ==
    Step(Step(Step(Step(Step(
        NewFrame(schema_path, object_path, instance, instance_path))))))

(***************************************************************************)
(* main and the process.                                                   *)
(***************************************************************************)
Check(example, example_jsonpath, schema_file, schema_jsonpath, should_validate) ==
    [example |-> example, example_jsonpath |-> example_jsonpath,
     schema_file |-> schema_file, schema_jsonpath |-> schema_jsonpath,
     should_validate |-> should_validate]

\* The configurations a check list is drawn from: every combination of
\* expectation and outcome of validate.
CheckUniverse ==
    {Check("Example_X", Root, "Schema_Req", Root, b) : b \in BOOLEAN}
    \cup {Check("Example_Empty", Root, "Schema_Req", Root, b) : b \in BOOLEAN}
    \cup {Check("Example_Feature", Dot("feature"), "Schema_Defs",
                Def("Point"), TRUE),
          Check("Example_Feature", Dot("partial"), "Schema_Defs",
                Def("Choice"), TRUE),
          Check("Example_Feature", Dot("*"), "Schema_Defs",
                Def("Point"), TRUE),
          Check("Example_Feature", Dot("feature"), "Schema_Defs",
                Dot("missing"), TRUE),
          Check("Example_Feature", Dot("feature"), "Schema_Defs",
                Def("Malformed"), FALSE),
          Check("Example_Feature", Dot("feature"), "Schema_Defs",
                Def("Dangling"), TRUE)}

CheckLists == UNION {[1..n -> CheckUniverse] : n \in 0..MaxChecks}

Header(example, kind, count) == [example |-> example, kind |-> kind, count |-> count]
ErrorLines(errors) ==
    Flat([i \in 1..Len(errors) |->
            <<[kind |-> "error", json_path |-> errors[i].json_path,
               message |-> errors[i].message],
              [kind |-> "blank"]>>])

\* A variant in which a check that meets its expectation sets success.
Report_last_wins(check, errors, succ) ==
    IF check.should_validate
    THEN IF errors # <<>>
         THEN [printed |-> <<Header(check.example, "errors found", Len(errors))>>
                           \o ErrorLines(errors),
               success |-> FALSE]
         ELSE [printed |-> <<Header(check.example, "No errors found.", 0)>>,
               success |-> TRUE]
    ELSE IF errors # <<>>
         THEN [printed |-> <<Header(check.example, "Correctly found errors.", Len(errors))>>,
               success |-> TRUE]
         ELSE [printed |-> <<Header(check.example, "INCORRECTLY found no errors", 0)>>,
               success |-> FALSE]

\* lines 95-109: what one iteration prints and what it leaves in success
Report(check, errors, succ) ==
    IF check.should_validate
    THEN IF errors # <<>>
         THEN [printed |-> <<Header(check.example, "errors found", Len(errors))>>
                           \o ErrorLines(errors),
               success |-> FALSE]
         ELSE [printed |-> <<Header(check.example, "No errors found.", 0)>>,
               success |-> succ]
    ELSE IF errors # <<>>
         THEN [printed |-> <<Header(check.example, "Correctly found errors.", Len(errors))>>,
               success |-> succ]
         ELSE [printed |-> <<Header(check.example, "INCORRECTLY found no errors", 0)>>,
               success |-> FALSE]

Init ==
    /\ to_validate \in CheckLists
    /\ idx = 1
    /\ success = TRUE
    /\ stdout = <<>>
    /\ pc = "loop"
    /\ status = "running"
    /\ frame = IdleFrame
    /\ e_in = <<>>
    /\ e_out = NotCollected

\* lines 88-94, up to the call of validate
MainCall ==
    /\ pc = "loop"
    /\ idx <= Len(to_validate)
    /\ LET c == to_validate[idx]
           instance_content == ExampleFile(c.example)
       IN frame' = NewFrame(c.schema_file, c.schema_jsonpath,
                            instance_content, c.example_jsonpath)
    /\ pc' = "validate"
    /\ UNCHANGED <<to_validate, idx, success, stdout, status, e_in, e_out>>

\* validate's statements
ValidateLoadSchema ==
    /\ frame.pc = "load_schema"
    /\ frame' = StepLoadSchema(frame)
    /\ UNCHANGED <<to_validate, idx, success, stdout, pc, status, e_in, e_out>>

ValidateResolveSchema ==
    /\ frame.pc = "resolve_schema"
    /\ frame' = StepResolveSchema(frame)
    /\ UNCHANGED <<to_validate, idx, success, stdout, pc, status, e_in, e_out>>

ValidateResolveInstance ==
    /\ frame.pc = "resolve_instance"
    /\ frame' = StepResolveInstance(frame)
    /\ UNCHANGED <<to_validate, idx, success, stdout, pc, status, e_in, e_out>>

ValidateCheckSchema ==
    /\ frame.pc = "check_schema"
    /\ frame' = StepCheckSchema(frame)
    /\ UNCHANGED <<to_validate, idx, success, stdout, pc, status, e_in, e_out>>

ValidateIterErrors ==
    /\ frame.pc = "iter_errors"
    /\ frame' = StepIterErrors(frame)
    /\ UNCHANGED <<to_validate, idx, success, stdout, pc, status, e_in, e_out>>

\* A variant that leaves the loop at the first check that fails.
MainReport_break ==
    /\ pc = "validate"
    /\ frame.pc = "returned"
    /\ LET r == Report(to_validate[idx], frame.result, success)
       IN /\ stdout' = stdout \o r.printed
          /\ success' = r.success
          /\ idx' = IF r.success THEN idx + 1 ELSE Len(to_validate) + 1
    /\ pc' = "loop"
    /\ UNCHANGED <<to_validate, status, frame, e_in, e_out>>

\* lines 94-109: validate returned; report and go on with the next check
MainReport ==
    /\ pc = "validate"
    /\ frame.pc = "returned"
    /\ LET r == Report(to_validate[idx], frame.result, success)
       IN /\ stdout' = stdout \o r.printed
          /\ success' = r.success
    /\ idx' = idx + 1
    /\ pc' = "loop"
    /\ UNCHANGED <<to_validate, status, frame, e_in, e_out>>

\* A variant that catches the exception and goes on with the next check.
MainPropagate_caught ==
    /\ pc = "validate"
    /\ frame.pc = "raised"
    /\ pc' = "loop"
    /\ idx' = idx + 1
    /\ success' = FALSE
    /\ UNCHANGED <<to_validate, stdout, status, frame, e_in, e_out>>

\* line 94: validate raised; nothing in main or below line 114 catches it
MainPropagate ==
    /\ pc = "validate"
    /\ frame.pc = "raised"
    /\ pc' = "aborted"
    /\ status' = "uncaught exception"
    /\ UNCHANGED <<to_validate, idx, success, stdout, frame, e_in, e_out>>

\* line 111
MainReturn ==
    /\ pc = "loop"
    /\ idx > Len(to_validate)
    /\ pc' = "returned"
    /\ UNCHANGED <<to_validate, idx, success, stdout, status, frame, e_in, e_out>>

\* lines 114-118
Exit ==
    /\ pc = "returned"
    /\ status' = (IF success THEN "EX_OK" ELSE "EX_SOFTWARE")
    /\ pc' = "exited"
    /\ UNCHANGED <<to_validate, idx, success, stdout, frame, e_in, e_out>>

Next ==
    \/ MainCall
    \/ ValidateLoadSchema
    \/ ValidateResolveSchema
    \/ ValidateResolveInstance
    \/ ValidateCheckSchema
    \/ ValidateIterErrors
    \/ MainReport
    \/ MainPropagate
    \/ MainReturn
    \/ Exit

Spec == Init /\ [][Next]_vars

(***************************************************************************)
(* validate on its own, over every file, query and optional instance       *)
(* query.                                                                  *)
(***************************************************************************)
InitValidate ==
    /\ to_validate = <<>>
    /\ idx = 1
    /\ success = TRUE
    /\ stdout = <<>>
    /\ pc = "direct call"
    /\ status = "running"
    /\ \E sp \in SchemaFileNames, op \in SchemaQueries, ex \in ExampleFileNames,
          ip \in InstanceQueries \cup {None} :
            frame = NewFrame(sp, op, ExampleFile(ex), ip)
    /\ e_in = <<>>
    /\ e_out = NotCollected

NextValidate ==
    \/ ValidateLoadSchema
    \/ ValidateResolveSchema
    \/ ValidateResolveInstance
    \/ ValidateCheckSchema
    \/ ValidateIterErrors

SpecValidate == InitValidate /\ [][NextValidate]_vars

(***************************************************************************)
(* The flattening on its own, over every list of error trees of at most    *)
(* MaxNodes nodes.                                                         *)
(***************************************************************************)
Labels ==
    {[message |-> <<"m1">>, json_path |-> <<"$">>],
     [message |-> <<"m2">>, json_path |-> <<"$", ".", "a">>]}

RECURSIVE TreesOfSize(_)
RECURSIVE ForestsOfSize(_)
TreesOfSize(n) ==
    IF n < 1 THEN {}
    ELSE {ErrorNode(l.message, l.json_path, c) : l \in Labels, c \in ForestsOfSize(n - 1)}

ForestsOfSize(n) ==
    IF n = 0 THEN {<<>>}
    ELSE UNION {{<<t>> \o f : t \in TreesOfSize(j), f \in ForestsOfSize(n - j)} : j \in 1..n}

InitFlatten ==
    /\ to_validate = <<>>
    /\ idx = 1
    /\ success = TRUE
    /\ stdout = <<>>
    /\ pc = "direct call"
    /\ status = "running"
    /\ frame = IdleFrame
    /\ e_in \in UNION {ForestsOfSize(n) : n \in 0..MaxNodes}
    /\ e_out = NotCollected

\* lines 62-64 over the errors e_in
Collect ==
    /\ ~e_out.done
    /\ e_out' = Collected(CollectAll(e_in))
    /\ UNCHANGED <<to_validate, idx, success, stdout, pc, status, frame, e_in>>

NextFlatten == Collect

SpecFlatten == InitFlatten /\ [][NextFlatten]_vars

(***************************************************************************)
(* Properties.                                                             *)
(***************************************************************************)
Range(seq) == {seq[i] : i \in 1..Len(seq)}

RECURSIVE Positions(_)
\* The addresses of the nodes of a list of trees: the index of a tree, then
\* the indices down its context lists.
Positions(forest) ==
    UNION {{<<i>>} \cup {<<i>> \o p : p \in Positions(forest[i].context)} :
             i \in 1..Len(forest)}

RECURSIVE NodeAt(_, _)
NodeAt(forest, pos) ==
    IF Len(pos) = 1 THEN forest[pos[1]]
    ELSE NodeAt(forest[pos[1]].context, Tail(pos))

LeafPositions(forest) == {p \in Positions(forest) : NodeAt(forest, p).context = <<>>}

\* p comes before q, left to right and depth first (neither is above the other).
Before(p, q) ==
    \E i \in 1..Len(p) :
        /\ i <= Len(q)
        /\ p[i] < q[i]
        /\ \A j \in 1..(i - 1) : p[j] = q[j]

RECURSIVE InOrder(_)
InOrder(ps) ==
    IF ps = {} THEN <<>>
    ELSE LET first == CHOOSE p \in ps : \A q \in ps \ {p} : Before(p, q)
         IN <<first>> \o InOrder(ps \ {first})

LeavesInPreOrder(forest) ==
    LET ps == InOrder(LeafPositions(forest))
    IN [i \in 1..Len(ps) |->
          [message |-> NodeAt(forest, ps[i]).message,
           json_path |-> NodeAt(forest, ps[i]).json_path]]

\* C2: flattening is order-preserving and leaf-only: what the loop of validate
\* collects from the validator's errors is exactly one (message, json_path)
\* entry per leaf of the error trees, in pre-order; a composite node (one with
\* a non-empty context) contributes no entry of its own.
C2_FlattenLeavesInPreOrder ==
    e_out.done => e_out.list = LeavesInPreOrder(e_in)

\* A composite below a composite, and leaves on both sides of it.
C2_Witness ==
    /\ e_out.done
    /\ Len(e_in) = 2
    /\ e_in[1].context # <<>>
    /\ e_in[1].context[1].context # <<>>
    /\ e_in[2].context = <<>>
    /\ Len(e_out.list) = 2
    /\ e_out.list[1] # e_out.list[2]

(***************************************************************************)
(* validate, seen from its arguments.                                      *)
(***************************************************************************)
Terminal(fr) == fr.pc \in {"returned", "raised"}
Called(fr, name) == name \in Range(fr.calls)

SchemaMatches(fr) == find(parse(fr.object_path), SchemaFile(fr.schema_path))
InstanceMatches(fr) ==
    IF fr.instance_path = None THEN <<fr.instance>>
    ELSE find(parse(fr.instance_path), fr.instance)

ConfigurationErrors == {"ValueError", "SchemaError"}

\* C1: a schema or instance path query that matches zero or several nodes makes
\* validate raise the configuration error (with the count) and leave no
\* fragment and no error list; only a single match is used, and it is the
\* matched value.
C1_AmbiguousPathRaises ==
    /\ Called(frame, "find_schema") =>
         LET m == SchemaMatches(frame)
         IN IF Len(m) = 1
            THEN frame.schema = m[1] /\ frame.exc # ValueError("schema", 1)
            ELSE /\ frame.pc = "raised"
                 /\ frame.exc = ValueError("schema", Len(m))
                 /\ frame.schema = None
                 /\ frame.value = None
                 /\ frame.result = <<>>
                 /\ frame.calls = <<"find_schema">>
    /\ Called(frame, "find_instance") =>
         LET m == InstanceMatches(frame)
         IN IF Len(m) = 1
            THEN frame.value = m[1] /\ frame.exc # ValueError("instance", 1)
            ELSE /\ frame.pc = "raised"
                 /\ frame.exc = ValueError("instance", Len(m))
                 /\ frame.value = None
                 /\ frame.result = <<>>
                 /\ frame.calls = <<"find_schema", "find_instance">>

C1_Witness ==
    /\ frame.pc = "raised"
    /\ frame.exc.type = "ValueError"
    /\ frame.exc.what = "instance"
    /\ frame.exc.count > 1

(***************************************************************************)
(* What it is for a value to conform to a schema of the document.          *)
(***************************************************************************)
PointerNames(ref) == [i \in 1..((Len(ref) - 1) \div 2) |-> ref[2 * i + 1]]

RECURSIVE HasNode(_, _)
HasNode(doc, names) ==
    \/ names = <<>>
    \/ IsObj(doc) /\ Head(names) \in DOMAIN doc.f /\ HasNode(doc.f[Head(names)], Tail(names))

RECURSIVE Node(_, _)
Node(doc, names) == IF names = <<>> THEN doc ELSE Node(doc.f[Head(names)], Tail(names))

TypeName(v) ==
    CASE v.k = "obj" -> "object"
      [] v.k = "int" -> "integer"
      [] v.k = "str" -> "string"
      [] v.k = "arr" -> "array"
      [] OTHER -> "null"

RECURSIVE RefsResolve(_, _)
\* Every reference that can be met in s names a schema of the document.
RefsResolve(s, doc) ==
    /\ "$ref" \in Keys(s) =>
         LET names == PointerNames(s.f["$ref"].s)
         IN /\ Head(s.f["$ref"].s) = "#"
            /\ HasNode(doc, names)
            /\ MetaValid(Node(doc, names))
            /\ RefsResolve(Node(doc, names), doc)
    /\ "properties" \in Keys(s) =>
         \A p \in Keys(s.f["properties"]) : RefsResolve(s.f["properties"].f[p], doc)
    /\ "anyOf" \in Keys(s) =>
         \A i \in 1..Len(s.f["anyOf"].a) : RefsResolve(s.f["anyOf"].a[i], doc)

RECURSIVE Conforms(_, _, _)
Conforms(s, v, doc) ==
    /\ "$ref" \in Keys(s) => Conforms(Node(doc, PointerNames(s.f["$ref"].s)), v, doc)
    /\ "type" \in Keys(s) => TypeName(v) = s.f["type"].s[1]
    /\ ("required" \in Keys(s) /\ IsObj(v)) =>
         \A i \in 1..Len(s.f["required"].a) : s.f["required"].a[i].s[1] \in DOMAIN v.f
    /\ ("properties" \in Keys(s) /\ IsObj(v)) =>
         \A p \in Keys(s.f["properties"]) \cap DOMAIN v.f :
             Conforms(s.f["properties"].f[p], v.f[p], doc)
    /\ "anyOf" \in Keys(s) =>
         \E i \in 1..Len(s.f["anyOf"].a) : Conforms(s.f["anyOf"].a[i], v, doc)

\* Both queries match one node each and the schema fragment is a valid schema.
WellConfigured(fr) ==
    /\ Len(SchemaMatches(fr)) = 1
    /\ Len(InstanceMatches(fr)) = 1
    /\ MetaValid(SchemaMatches(fr)[1])

\* C6 as stated: whenever both queries match one node and the fragment passes
\* meta-validation, validate returns a list, empty exactly when the instance
\* fragment conforms to the schema fragment.
C6_AlwaysReturnsAList ==
    (Terminal(frame) /\ WellConfigured(frame)) =>
        /\ frame.pc = "returned"
        /\ (frame.result = <<>>) <=>
               Conforms(SchemaMatches(frame)[1], InstanceMatches(frame)[1],
                        SchemaFile(frame.schema_path))

\* C6, amended: whenever both queries match one node, the fragment passes
\* meta-validation and every "$ref" it can lead to names a schema of the
\* document, validate returns a list, empty exactly when the instance fragment
\* conforms to the schema fragment; and a well-configured call that does not
\* return left through a reference that does not resolve.
C6_FailuresAreData ==
    (Terminal(frame) /\ WellConfigured(frame)) =>
        IF RefsResolve(SchemaMatches(frame)[1], SchemaFile(frame.schema_path))
        THEN /\ frame.pc = "returned"
             /\ frame.exc = NoExc
             /\ (frame.result = <<>>) <=>
                    Conforms(SchemaMatches(frame)[1], InstanceMatches(frame)[1],
                             SchemaFile(frame.schema_path))
        ELSE frame.pc = "raised" => frame.exc.type = "RefResolutionError"

\* An instance that fails a choice of schemas: a non-empty list is returned.
C6_Witness ==
    /\ frame.pc = "returned"
    /\ frame.object_path = Def("Choice")
    /\ Len(frame.result) = 3

(***************************************************************************)
(* References.                                                             *)
(***************************************************************************)
SchemaKeywords == {"type", "required", "properties", "anyOf"}
OnlyARef(s) == IsObj(s) /\ "$ref" \in Keys(s) /\ Keys(s) \cap SchemaKeywords = {}

\* "#/a/b" as the query "$.a.b": the same place, counted from the document.
PointerAsQuery(ref) ==
    JStr(<<"$">> \o [i \in 1..(Len(ref) - 1) |-> IF ref[i + 1] = "/" THEN "." ELSE ref[i + 1]])

\* C7: a "$ref" in a selected sub-fragment resolves against the whole schema
\* document: validating against a fragment that is only a reference comes to
\* what validating against the node the reference names, counted from the root
\* of the document, comes to, wherever the fragment was selected from.
C7_RefsAreDocumentRelative ==
    (/\ Terminal(frame)
     /\ Called(frame, "iter_errors")
     /\ frame.object_path # Root
     /\ OnlyARef(frame.schema)) =>
        LET named == validate(frame.schema_path, PointerAsQuery(frame.schema.f["$ref"].s),
                              frame.instance, frame.instance_path)
        IN IF named.exc = ValueError("schema", 0)
           THEN frame.pc = "raised" /\ frame.exc.type = "RefResolutionError"
           ELSE /\ frame.pc = named.pc
                /\ frame.exc = named.exc
                /\ frame.result = named.result

\* The fragment holds a "defs/Point" of its own; the document's is the one used.
C7_Witness ==
    /\ frame.pc = "returned"
    /\ frame.object_path = Def("Shadow")
    /\ frame.value = JInt(5)
    /\ frame.result # <<>>

\* C8: without an instance query validate uses the whole instance: the call
\* ends as the call with the root query "$" does, no instance query is
\* evaluated and no path error about the instance is raised.
C8_NoneIsRoot ==
    (Terminal(frame) /\ frame.instance_path = None) =>
        LET rooted == validate(frame.schema_path, frame.object_path, frame.instance, Root)
        IN /\ frame.pc = rooted.pc
           /\ frame.exc = rooted.exc
           /\ frame.result = rooted.result
           /\ ~Called(frame, "find_instance")
           /\ ~(frame.exc.type = "ValueError" /\ frame.exc.what = "instance")

C8_Witness ==
    /\ frame.pc = "returned"
    /\ frame.instance_path = None
    /\ frame.result # <<>>

(***************************************************************************)
(* The order of validate's steps.                                          *)
(***************************************************************************)
IsPrefix(p, q) == Len(p) <= Len(q) /\ p = SubSeq(q, 1, Len(p))

BothWrong(fr) ==
    /\ Len(SchemaMatches(fr)) = 1
    /\ ~MetaValid(SchemaMatches(fr)[1])
    /\ Len(InstanceMatches(fr)) # 1

\* C9 as stated: the schema fragment is meta-validated before the instance
\* query is evaluated, and a malformed schema together with an ambiguous
\* instance query raises the malformed-schema error.
C9_SchemaCheckedFirst ==
    /\ Called(frame, "find_instance") => Called(frame, "check_schema")
    /\ (Terminal(frame) /\ BothWrong(frame)) => frame.exc = SchemaError

\* C9, amended: validate evaluates the instance query before it meta-validates
\* the schema fragment (and meta-validates before it validates any value), so a
\* malformed schema together with an ambiguous instance query raises the
\* path error about the instance.
C9_InstanceResolvedFirst ==
    /\ IsPrefix(frame.calls,
                IF frame.instance_path = None
                THEN <<"find_schema", "check_schema", "iter_errors">>
                ELSE <<"find_schema", "find_instance", "check_schema", "iter_errors">>)
    /\ (Terminal(frame) /\ BothWrong(frame)) =>
         /\ frame.exc = ValueError("instance", Len(InstanceMatches(frame)))
         /\ ~Called(frame, "check_schema")

C9_Witness ==
    /\ Terminal(frame)
    /\ BothWrong(frame)
    /\ frame.exc.type = "ValueError"

\* C10: when a path query does not match exactly one node or the schema
\* fragment fails meta-validation, iter_errors is never invoked and no
\* validation error is collected: the call ends in a configuration error.
C10_NoValidationAfterConfigError ==
    (frame.pc # "idle" /\ ~WellConfigured(frame)) =>
        /\ ~Called(frame, "iter_errors")
        /\ frame.result = <<>>
        /\ frame.pc # "returned"
        /\ frame.pc = "raised" => frame.exc.type \in ConfigurationErrors

C10_Witness ==
    /\ frame.pc = "raised"
    /\ frame.exc = SchemaError
    /\ frame.value # None

(***************************************************************************)
(* main, seen from its check list.                                         *)
(***************************************************************************)
Outcome(check) ==
    validate(check.schema_file, check.schema_jsonpath,
             ExampleFile(check.example), check.example_jsonpath)

\* The check's errors are empty exactly when it is expected to validate.
MeetsExpectation(check) == (Outcome(check).result = <<>>) = check.should_validate

IsHeader(line) == line.kind \notin {"error", "blank"}
Headers(printed) == SelectSeq(printed, IsHeader)

\* The first line main prints for a check.
HeaderOf(check) == Report(check, Outcome(check).result, TRUE).printed[1]

\* C3: when main runs to completion it returns True exactly when every check
\* meets its expectation, and the process then exits with EX_OK; one check
\* that does not makes it return False and exit with EX_SOFTWARE, whatever the
\* later checks do.
C3_SuccessIffAllMeetExpectation ==
    LET all == \A i \in 1..Len(to_validate) : MeetsExpectation(to_validate[i])
    IN /\ pc \in {"returned", "exited"} => (success <=> all)
       /\ pc = "exited" => status = (IF all THEN "EX_OK" ELSE "EX_SOFTWARE")

\* The first check fails, the last one passes: the run still fails.
C3_Witness ==
    /\ pc = "exited"
    /\ status = "EX_SOFTWARE"
    /\ Len(to_validate) >= 2
    /\ ~MeetsExpectation(to_validate[1])
    /\ MeetsExpectation(to_validate[Len(to_validate)])

\* C4 as stated: for every check list, once the run has ended every entry has
\* been reported exactly once, in configuration order.
C4_EveryCheckReported ==
    pc \in {"exited", "aborted"} =>
        Headers(stdout) = [i \in 1..Len(to_validate) |-> HeaderOf(to_validate[i])]

\* C4, amended: unless validate raises for some check, every entry is validated
\* and reported exactly once, in configuration order, whatever the outcomes of
\* the other checks; a check that does not meet its expectation never stops
\* the loop: the checks before the current one are always the ones reported,
\* and only an exception out of validate ends the loop early.
C4_NoEarlyTermination ==
    /\ pc \in {"returned", "exited"} =>
         Headers(stdout) = [i \in 1..Len(to_validate) |-> HeaderOf(to_validate[i])]
    /\ pc \in {"loop", "validate"} =>
         /\ idx <= Len(to_validate) + 1
         /\ Headers(stdout) = [i \in 1..(idx - 1) |-> HeaderOf(to_validate[i])]
    /\ pc = "returned" => idx = Len(to_validate) + 1
    /\ pc = "aborted" => frame.pc = "raised"

\* The first check fails and the second is reported all the same.
C4_Witness ==
    /\ pc = "exited"
    /\ Len(to_validate) >= 2
    /\ ~MeetsExpectation(to_validate[1])
    /\ Len(Headers(stdout)) = Len(to_validate)
    /\ success = FALSE

\* C5: a configuration error raised while check idx is processed aborts the
\* run at once: it leaves validate and main uncaught, check idx gets no report,
\* no later check is loaded, validated or reported (nothing happens after the
\* abort), and main produces no overall result.
C5_ConfigurationErrorAborts ==
    (frame.pc = "raised" /\ frame.exc.type \in ConfigurationErrors) =>
        /\ pc \in {"validate", "aborted"}
        /\ idx <= Len(to_validate)
        /\ frame.object_path = to_validate[idx].schema_jsonpath
        /\ Headers(stdout) = [i \in 1..(idx - 1) |-> HeaderOf(to_validate[i])]
        /\ status \notin {"EX_OK", "EX_SOFTWARE"}
        /\ pc = "validate" => (ENABLED MainPropagate /\ ~ENABLED MainReport)
        /\ pc = "aborted" => (status = "uncaught exception" /\ ~ENABLED Next)

\* The first of two checks is misconfigured: nothing is ever reported.
C5_Witness ==
    /\ pc = "aborted"
    /\ frame.exc.type \in ConfigurationErrors
    /\ idx = 1
    /\ Len(to_validate) >= 2
    /\ stdout = <<>>

====
